---------------------------- MODULE Spec2Model ----------------------------
(***************************************************************************)
(* Model of nonebot_plugin_petpet/utils.py: the canvas fitter (fit_size),  *)
(* the still/animated renderer (make_jpg_or_gif) and the font size search  *)
(* (fit_font_size).                                                        *)
(*                                                                         *)
(* Python's float is an IEEE-754 binary64.  Every float the code computes  *)
(* is computed here bit for bit: a positive float is a record [m, e] with  *)
(* 2^52 <= m < 2^53 and value m * 2^e, and division and multiplication     *)
(* round to nearest, ties to even.  The 53-bit significand does not fit    *)
(* the model checker's integers, so m is a little-endian sequence of       *)
(* base-2^14 limbs.                                                        *)
(***************************************************************************)
EXTENDS Integers, Sequences, FiniteSets

-----------------------------------------------------------------------------
(* Natural numbers of arbitrary size: little-endian limb sequences, no      *)
(* high zero limb, <<>> is zero.                                            *)

LimbBits == 14
Base == 2^LimbBits

RECURSIVE BNorm(_)
BNorm(N) ==
    IF N = <<>> THEN <<>>
    ELSE IF N[Len(N)] = 0 THEN BNorm(SubSeq(N, 1, Len(N) - 1))
    ELSE N

RECURSIVE BFromInt(_)
BFromInt(n) == IF n = 0 THEN <<>> ELSE <<n % Base>> \o BFromInt(n \div Base)

RECURSIVE BToInt(_)
BToInt(N) == IF N = <<>> THEN 0 ELSE N[1] + Base * BToInt(Tail(N))

RECURSIVE BMulSmall(_, _, _)
\* N * c + carry, for 0 <= c < Base
BMulSmall(N, c, carry) ==
    IF N = <<>> THEN BFromInt(carry)
    ELSE LET t == N[1] * c + carry
         IN  <<t % Base>> \o BMulSmall(Tail(N), c, t \div Base)

RECURSIVE BAdd(_, _, _)
BAdd(N, M, carry) ==
    IF N = <<>> /\ M = <<>> THEN BFromInt(carry)
    ELSE LET a == IF N = <<>> THEN 0 ELSE N[1]
             b == IF M = <<>> THEN 0 ELSE M[1]
             t == a + b + carry
         IN  <<t % Base>> \o BAdd(IF N = <<>> THEN <<>> ELSE Tail(N),
                                  IF M = <<>> THEN <<>> ELSE Tail(M),
                                  t \div Base)

RECURSIVE BSubRaw(_, _, _)
\* N - M - borrow for N >= M + borrow, high zero limbs kept
BSubRaw(N, M, borrow) ==
    IF N = <<>> THEN <<>>
    ELSE LET b == IF M = <<>> THEN 0 ELSE M[1]
             t == N[1] - b - borrow
         IN  <<t % Base>> \o BSubRaw(Tail(N),
                                     IF M = <<>> THEN <<>> ELSE Tail(M),
                                     IF t < 0 THEN 1 ELSE 0)

BSub(N, M) == BNorm(BSubRaw(N, M, 0))

RECURSIVE BMul(_, _)
BMul(N, M) ==
    IF M = <<>> \/ N = <<>> THEN <<>>
    ELSE BNorm(BAdd(BMulSmall(N, M[1], 0), <<0>> \o BMul(N, Tail(M)), 0))

RECURSIVE BCmpFrom(_, _, _)
BCmpFrom(N, M, i) ==
    IF i = 0 THEN 0
    ELSE IF N[i] < M[i] THEN -1
    ELSE IF N[i] > M[i] THEN 1
    ELSE BCmpFrom(N, M, i - 1)

\* -1, 0, 1 as N <, =, > M
BCmp(N, M) ==
    IF Len(N) < Len(M) THEN -1
    ELSE IF Len(N) > Len(M) THEN 1
    ELSE BCmpFrom(N, M, Len(N))

RECURSIVE BDivStep(_, _, _)
\* short division by 0 < b < 2^16, from the high limb down, r the running remainder
BDivStep(N, b, r) ==
    IF N = <<>> THEN [q |-> <<>>, r |-> r]
    ELSE LET cur  == r * Base + N[Len(N)]
             rest == BDivStep(SubSeq(N, 1, Len(N) - 1), b, cur % b)
         IN  [q |-> rest.q \o <<cur \div b>>, r |-> rest.r]

BDivSmall(N, b) ==
    LET d == BDivStep(N, b, 0) IN [q |-> BNorm(d.q), r |-> d.r]

Zeros(k) == [i \in 1..k |-> 0]

\* N * 2^s
BShl(N, s) ==
    IF N = <<>> THEN <<>>
    ELSE Zeros(s \div LimbBits) \o BMulSmall(N, 2^(s % LimbBits), 0)

\* N \div 2^s, and whether a one bit was shifted out
BShr(N, s) ==
    LET k    == s \div LimbBits
        low  == SubSeq(N, 1, IF k < Len(N) THEN k ELSE Len(N))
        high == IF k < Len(N) THEN SubSeq(N, k + 1, Len(N)) ELSE <<>>
        d    == BDivSmall(high, 2^(s % LimbBits))
    IN  [q |-> d.q, sticky |-> d.r # 0 \/ \E i \in 1..Len(low) : low[i] # 0]

RECURSIVE BitLenInt(_)
BitLenInt(n) == IF n = 0 THEN 0 ELSE 1 + BitLenInt(n \div 2)

BBitLen(N) ==
    IF N = <<>> THEN 0 ELSE LimbBits * (Len(N) - 1) + BitLenInt(N[Len(N)])

BOdd(N) == N # <<>> /\ N[1] % 2 = 1

-----------------------------------------------------------------------------
(* binary64 arithmetic on non-negative values.                              *)

MantBits == 53
FZero == [m |-> <<>>, e |-> 0]

\* the float nearest to N * 2^e (sticky: the exact value lies strictly above N * 2^e
\* and below (N + 1) * 2^e), ties to even
FRound(N, e, sticky) ==
    LET L == BBitLen(N)
    IN  IF N = <<>> THEN FZero
        ELSE IF L <= MantBits
        THEN [m |-> BShl(N, MantBits - L), e |-> e - (MantBits - L)]
        ELSE LET s     == L - MantBits
                 sh    == BShr(N, s - 1)
                 guard == BOdd(sh.q)
                 q     == BShr(sh.q, 1).q
                 up    == guard /\ (sh.sticky \/ sticky \/ BOdd(q))
                 m1    == IF up THEN BAdd(q, <<1>>, 0) ELSE q
             IN  IF BBitLen(m1) > MantBits
                 THEN [m |-> BShr(m1, 1).q, e |-> e + s + 1]
                 ELSE [m |-> m1, e |-> e + s]

\* float(n) for an int 0 <= n < 2^31
FFromInt(n) == FRound(BFromInt(n), 0, FALSE)

\* a / b for ints 0 <= a < 2^16, 0 < b < 2^16 (Python's true division)
FDivInt(a, b) ==
    LET d == BDivSmall(BShl(BFromInt(a), 5 * LimbBits), b)
    IN  FRound(d.q, -(5 * LimbBits), d.r # 0)

\* x * y
FMul(x, y) ==
    IF x.m = <<>> \/ y.m = <<>> THEN FZero
    ELSE FRound(BMul(x.m, y.m), x.e + y.e, FALSE)

\* -1, 0, 1 as x <, =, > y
FCmp(x, y) ==
    IF x.m = <<>> THEN (IF y.m = <<>> THEN 0 ELSE -1)
    ELSE IF y.m = <<>> THEN 1
    ELSE IF x.e < y.e THEN -1
    ELSE IF x.e > y.e THEN 1
    ELSE BCmp(x.m, y.m)

FMin(x, y) == IF FCmp(y, x) < 0 THEN y ELSE x
FMax(x, y) == IF FCmp(y, x) > 0 THEN y ELSE x

\* int(x) for a float 0 <= x < 2^28
FTrunc(x) ==
    IF x.m = <<>> THEN 0
    ELSE IF x.e >= 0 THEN BToInt(BShl(x.m, x.e))
    ELSE BToInt(BShr(x.m, -x.e).q)

\* int(n / 2) for an int n: the quotient is exact in binary64, int() drops the half
\* towards zero
IntHalf(n) == IF n >= 0 THEN n \div 2 ELSE -((-n) \div 2)

-----------------------------------------------------------------------------
(* Bounds of the checked instances.                                         *)

MaxSrc == 5        \* source images of 1..MaxSrc pixels a side
MaxDim == 3        \* target sizes of 1..MaxDim pixels a side
MaxFrames == 5     \* animated sources of 1..MaxFrames frames (renderer)
MaxBudget == 4     \* gif_max_frames in 1..MaxBudget (renderer)
MaxTotal == 32     \* animated sources of 1..MaxTotal frames (sampler alone)
MaxCap == 24       \* gif_max_frames in 1..MaxCap (sampler alone)
MaxFont == 4       \* font sizes in 1..MaxFont

\* sources and targets beside the small ones: the 800x600 -> 200x200 scenario, and
\* sizes at which the float product img_w * ratio falls just below an integer
ExtraSrc == {<<800, 600>>, <<49, 49>>, <<47, 3>>}
ExtraTarget == {<<200, 200>>}
SrcSizes == ((1..MaxSrc) \X (1..MaxSrc)) \cup ExtraSrc
TargetSizes == ((1..MaxDim) \X (1..MaxDim)) \cup ExtraTarget

\* img.info["duration"], milliseconds
Durations == {40, 70}
\* gif_zoom, as the float nearest to p / q
Zooms == {<<1, 1>>, <<1, 2>>, <<3, 4>>}
\* the sizes func may give the image it returns
FuncSizes == {<<10, 10>>, <<7, 5>>}
\* frame counts and budgets beside the small ones: 120 frames under a budget of 50
ExtraSample == {<<120, 50>>}

\* stroke_ratio, as the float nearest to p / q
StrokeRatios == {<<0, 1>>, <<1, 2>>}
\* the text extents a font may give, and the boxes <<max_width, max_height>>
Extents == {<<1, 1>>, <<2, 1>>, <<1, 2>>}
Boxes == {<<1, 1>>, <<3, 3>>}

Null == [none |-> TRUE]

-----------------------------------------------------------------------------
VARIABLES
    pc,             \* the position in the function being run
    \* fit_size
    img_size,       \* img.size on entry
    size,           \* the requested size
    mode,           \* FitSizeMode
    direction,      \* FitSizeDir
    fit_result,     \* what fit_size returned
    \* make_jpg_or_gif
    is_animated,    \* getattr(img, "is_animated", False)
    n_frames,       \* img.n_frames
    gif_max_frames,
    info_duration,  \* img.info["duration"]
    gif_zoom,
    ratio,          \* float
    duration,       \* float
    index,          \* the frame indices the loop runs over
    pos,            \* how many of them the loop has taken
    cursor,         \* the frame img is positioned at (img.seek)
    new_img,        \* func's result for the current frame
    calls,          \* the cursor at each call of func so far
    frames,         \* the list frames
    saved,          \* the arguments of the save_gif / save_jpg call made
    \* fit_font_size
    max_fontsize,
    min_fontsize,
    stroke_ratio,
    box,            \* <<max_width, max_height>>
    metrics,        \* the font: text extents without stroke, per font size
    fontsize,
    font_result

fitVars == <<img_size, size, mode, direction, fit_result>>
gifIn == <<is_animated, n_frames, gif_max_frames, info_duration, gif_zoom>>
gifVars == <<gifIn, ratio, duration, index, pos, cursor, new_img, calls, frames, saved>>
fontIn == <<max_fontsize, min_fontsize, stroke_ratio, box, metrics>>
fontVars == <<fontIn, fontsize, font_result>>
vars == <<pc, fitVars, gifVars, fontVars>>

-----------------------------------------------------------------------------
(* fit_size                                                                 *)

FitSizeMode == {"INSIDE", "INCLUDE"}
FitSizeDir == {"CENTER", "NORTH", "SOUTH", "WEST", "EAST",
               "NORTHWEST", "NORTHEAST", "SOUTHWEST", "SOUTHEAST"}

\* resize(img, size): the image PIL returns has the size asked for
resize(img, sz) == [img EXCEPT !.width = sz[1], !.height = sz[2]]

\* ratio, lines 84-87
FitRatio(sz, isz, md) ==
    IF md = "INSIDE"
    THEN FMin(FDivInt(sz[1], isz[1]), FDivInt(sz[2], isz[2]))
    ELSE FMax(FDivInt(sz[1], isz[1]), FDivInt(sz[2], isz[2]))

\* the product rounded up instead of truncated
ScaleDimCeil(d, r) ==
    LET t == FTrunc(FMul(FFromInt(d), r))
    IN  IF FCmp(FFromInt(t), FMul(FFromInt(d), r)) < 0 THEN t + 1 ELSE t

\* int(img_w * ratio), lines 88-89
ScaleDim(d, r) == FTrunc(FMul(FFromInt(d), r))

\* x left centred whatever the direction
PasteXCentred(w, img_w, dir) == IntHalf(w - img_w)

\* x, lines 92 and 98-101
PasteX(w, img_w, dir) ==
    IF dir \in {"WEST", "NORTHWEST", "SOUTHWEST"} THEN 0
    ELSE IF dir \in {"EAST", "NORTHEAST", "SOUTHEAST"} THEN w - img_w
    ELSE IntHalf(w - img_w)

\* y, lines 93-97
PasteY(h, img_h, dir) ==
    IF dir \in {"NORTH", "NORTHWEST", "NORTHEAST"} THEN 0
    ELSE IF dir \in {"SOUTH", "SOUTHWEST", "SOUTHEAST"} THEN h - img_h
    ELSE IntHalf(h - img_h)

\* Image.new("RGBA", size, bg_color), line 102
ImageNew(sz) == [width |-> sz[1], height |-> sz[2]]

\* fit_size returning the scaled image itself, with no canvas
fit_size_no_canvas(isz, sz, md, dir) ==
    LET r       == FitRatio(sz, isz, md)
        img_w   == ScaleDim(isz[1], r)
        img_h   == ScaleDim(isz[2], r)
        img     == resize([width |-> isz[1], height |-> isz[2]], <<img_w, img_h>>)
    IN  [width |-> img.width, height |-> img.height, content |-> img, x |-> 0, y |-> 0]

\* the image fit_size returns: the canvas, and where on it the scaled image was
\* pasted (paste leaves the canvas size alone and clips what falls outside)
fit_size(isz, sz, md, dir) ==
    LET r       == FitRatio(sz, isz, md)
        img_w   == ScaleDim(isz[1], r)
        img_h   == ScaleDim(isz[2], r)
        img     == resize([width |-> isz[1], height |-> isz[2]], <<img_w, img_h>>)
        x       == PasteX(sz[1], img_w, dir)
        y       == PasteY(sz[2], img_h, dir)
        result  == ImageNew(sz)
    IN  [width |-> result.width, height |-> result.height,
         content |-> img, x |-> x, y |-> y]

FitSizeCall ==
    /\ pc = "fit_size"
    /\ fit_result' = fit_size(img_size, size, mode, direction)
    /\ pc' = "returned"
    /\ UNCHANGED <<img_size, size, mode, direction, gifVars, fontVars>>

-----------------------------------------------------------------------------
(* make_jpg_or_gif                                                          *)

\* no subsampling: every source frame
SampleIndexAll(n, cap, r) == [i \in 1..n |-> i - 1]
\* i running over 1..gif_max_frames instead of range(gif_max_frames)
SampleIndexFromOne(n, cap, r) ==
    IF FCmp(r, FFromInt(1)) > 0
    THEN [i \in 1..cap |-> FTrunc(FMul(FFromInt(i), r))]
    ELSE [i \in 1..n |-> i - 1]

\* index, lines 171-175
SampleIndex(n, cap, r) ==
    IF FCmp(r, FFromInt(1)) > 0
    THEN [i \in 1..cap |-> FTrunc(FMul(FFromInt(i - 1), r))]
    ELSE [i \in 1..n |-> i - 1]

\* duration left at the native value
SampleDurationUnscaled(ms, r) == FDivInt(ms, 1000)

\* duration, lines 173-176
SampleDuration(ms, r) ==
    IF FCmp(r, FFromInt(1)) > 0
    THEN FMul(FDivInt(ms, 1000), r)
    ELSE FDivInt(ms, 1000)

\* line 168, a still source: save_jpg(func(img)); func returns an image or raises
Still ==
    /\ pc = "make_jpg_or_gif"
    /\ ~is_animated
    /\ \/ \E sz \in FuncSizes :
            /\ calls' = Append(calls, [at |-> cursor, ok |-> TRUE, width |-> sz[1],
                                        height |-> sz[2]])
            /\ saved' = [fn |-> "save_jpg",
                         frame |-> [src |-> cursor, width |-> sz[1], height |-> sz[2]]]
            /\ pc' = "returned"
       \/ /\ calls' = Append(calls, [at |-> cursor, ok |-> FALSE, width |-> 0, height |-> 0])
          /\ saved' = saved
          /\ pc' = "raised"
    /\ UNCHANGED <<gifIn, ratio, duration, index, pos, cursor, new_img, frames,
                   fitVars, fontVars>>

\* lines 171-178
Sample ==
    /\ pc = "make_jpg_or_gif"
    /\ is_animated
    /\ ratio' = FDivInt(n_frames, gif_max_frames)
    /\ index' = SampleIndex(n_frames, gif_max_frames, ratio')
    /\ duration' = SampleDuration(info_duration, ratio')
    /\ frames' = <<>>
    /\ pos' = 0
    /\ pc' = "for"
    /\ UNCHANGED <<gifIn, cursor, new_img, calls, saved, fitVars, fontVars>>

\* line 179-180: the next index, img.seek(i)
Seek ==
    /\ pc = "for"
    /\ pos < Len(index)
    /\ pos' = pos + 1
    /\ cursor' = index[pos + 1]
    /\ pc' = "func"
    /\ UNCHANGED <<gifIn, ratio, duration, index, new_img, calls, frames, saved,
                   fitVars, fontVars>>

\* func's failure caught and the frame skipped
CallFuncSwallow ==
    /\ pc = "func"
    /\ \/ \E sz \in FuncSizes :
            /\ calls' = Append(calls, [at |-> cursor, ok |-> TRUE, width |-> sz[1],
                                        height |-> sz[2]])
            /\ new_img' = [src |-> cursor, width |-> sz[1], height |-> sz[2]]
            /\ pc' = "append"
       \/ /\ calls' = Append(calls, [at |-> cursor, ok |-> FALSE, width |-> 0, height |-> 0])
          /\ new_img' = Null
          /\ pc' = "for"
    /\ UNCHANGED <<gifIn, ratio, duration, index, pos, cursor, frames, saved,
                   fitVars, fontVars>>

\* line 181: new_img = func(img); func returns an image made from the frame img is
\* positioned at, or raises, and what it raises leaves make_jpg_or_gif
CallFunc ==
    /\ pc = "func"
    /\ \/ \E sz \in FuncSizes :
            /\ calls' = Append(calls, [at |-> cursor, ok |-> TRUE, width |-> sz[1],
                                        height |-> sz[2]])
            /\ new_img' = [src |-> cursor, width |-> sz[1], height |-> sz[2]]
            /\ pc' = "append"
       \/ /\ calls' = Append(calls, [at |-> cursor, ok |-> FALSE, width |-> 0, height |-> 0])
          /\ new_img' = Null
          /\ pc' = "raised"
    /\ UNCHANGED <<gifIn, ratio, duration, index, pos, cursor, frames, saved,
                   fitVars, fontVars>>

\* int(new_img.width * gif_zoom), line 185
Zoomed(d, zoom) == FTrunc(FMul(FFromInt(d), FDivInt(zoom[1], zoom[2])))

\* the frame put at the head of the list
AppendFramePrepend(fs, img, zoom) ==
    <<resize(img, <<Zoomed(img.width, zoom), Zoomed(img.height, zoom)>>)>> \o fs

\* lines 182-187
AppendFrame(fs, img, zoom) ==
    Append(fs, resize(img, <<Zoomed(img.width, zoom), Zoomed(img.height, zoom)>>))

AppendStep ==
    /\ pc = "append"
    /\ frames' = AppendFrame(frames, new_img, gif_zoom)
    /\ pc' = "for"
    /\ UNCHANGED <<gifIn, ratio, duration, index, pos, cursor, new_img, calls, saved,
                   fitVars, fontVars>>

\* line 188
SaveGif ==
    /\ pc = "for"
    /\ pos = Len(index)
    /\ saved' = [fn |-> "save_gif", frames |-> frames, duration |-> duration]
    /\ pc' = "returned"
    /\ UNCHANGED <<gifIn, ratio, duration, index, pos, cursor, new_img, calls, frames,
                   fitVars, fontVars>>

-----------------------------------------------------------------------------
(* fit_font_size                                                            *)

\* int(fontsize * stroke_ratio), line 221
StrokeWidth(fs, sr) == FTrunc(FMul(FFromInt(fs), FDivInt(sr[1], sr[2])))

\* font.getsize_multiline(text, stroke_width) of PIL: the extents the font gives the text
\* at this size, widened by the stroke on every side
TextSize(fs, sw) == <<metrics[fs][1] + 2 * sw, metrics[fs][2] + 2 * sw>>

\* line 223 negated: the text is within max_width x max_height
Fits(fs) ==
    LET wh == TextSize(fs, StrokeWidth(fs, stroke_ratio))
    IN  ~(wh[1] > box[1] \/ wh[2] > box[2])

\* the bound tested before the size just reached is tried
BelowMinInclusive(fs, mn) == fs <= mn

\* line 227
BelowMin(fs, mn) == fs < mn

\* line 217
FontStart ==
    /\ pc = "fit_font_size"
    /\ fontsize' = max_fontsize
    /\ pc' = "while"
    /\ UNCHANGED <<fontIn, font_result, fitVars, gifVars>>

\* lines 219-226, the text fits: return fontsize
FontReturn ==
    /\ pc = "while"
    /\ Fits(fontsize)
    /\ font_result' = fontsize
    /\ pc' = "returned"
    /\ UNCHANGED <<fontIn, fontsize, fitVars, gifVars>>

\* lines 219-228, the text does not fit: one size down, and 0 below min_fontsize
FontShrink ==
    /\ pc = "while"
    /\ ~Fits(fontsize)
    /\ fontsize' = fontsize - 1
    /\ IF BelowMin(fontsize', min_fontsize)
       THEN font_result' = 0 /\ pc' = "returned"
       ELSE font_result' = font_result /\ pc' = "while"
    /\ UNCHANGED <<fontIn, fitVars, gifVars>>

-----------------------------------------------------------------------------
(* The specifications: one call of each function on inputs drawn from the   *)
(* bounded sets.                                                            *)

FitIdle ==
    /\ img_size = <<1, 1>> /\ size = <<1, 1>>
    /\ mode = "INCLUDE" /\ direction = "CENTER"
    /\ fit_result = Null

GifIdle ==
    /\ is_animated = FALSE /\ n_frames = 1 /\ gif_max_frames = 1
    /\ info_duration = 40 /\ gif_zoom = <<1, 1>>
    /\ ratio = FZero /\ duration = FZero
    /\ index = <<>> /\ pos = 0 /\ cursor = 0 /\ new_img = Null
    /\ calls = <<>> /\ frames = <<>> /\ saved = Null

FontIdle ==
    /\ max_fontsize = 1 /\ min_fontsize = 1 /\ stroke_ratio = <<0, 1>>
    /\ box = <<1, 1>> /\ metrics = [fs \in 1..1 |-> <<1, 1>>]
    /\ fontsize = 0 /\ font_result = Null

InitFit ==
    /\ pc = "fit_size"
    /\ img_size \in SrcSizes
    /\ size \in TargetSizes
    /\ mode \in FitSizeMode
    /\ direction \in FitSizeDir
    /\ fit_result = Null
    /\ GifIdle /\ FontIdle

\* the source after Image.open: positioned at frame 0
GifEntry ==
    /\ pc = "make_jpg_or_gif"
    /\ is_animated \in BOOLEAN
    /\ info_duration \in Durations
    /\ ratio = FZero /\ duration = FZero
    /\ index = <<>> /\ pos = 0 /\ cursor = 0 /\ new_img = Null
    /\ calls = <<>> /\ frames = <<>> /\ saved = Null
    /\ FitIdle /\ FontIdle

InitGif ==
    /\ GifEntry
    /\ n_frames \in 1..MaxFrames
    /\ gif_max_frames \in 1..MaxBudget
    /\ gif_zoom \in Zooms

InitSample ==
    /\ GifEntry
    /\ is_animated
    /\ \E nc \in ((1..MaxTotal) \X (1..MaxCap)) \cup ExtraSample :
            n_frames = nc[1] /\ gif_max_frames = nc[2]
    /\ gif_zoom = <<1, 1>>

InitFont ==
    /\ pc = "fit_font_size"
    /\ max_fontsize \in 1..MaxFont
    /\ min_fontsize \in 1..MaxFont
    /\ stroke_ratio \in StrokeRatios
    /\ box \in Boxes
    /\ metrics \in [1..MaxFont -> Extents]
    /\ fontsize = 0
    /\ font_result = Null
    /\ FitIdle /\ GifIdle

NextGif == Still \/ Sample \/ Seek \/ CallFunc \/ AppendStep \/ SaveGif
NextFont == FontStart \/ FontReturn \/ FontShrink

Init == InitFit \/ InitGif \/ InitFont
Next == FitSizeCall \/ NextGif \/ NextFont

Spec == Init /\ [][Next]_vars
SpecFit == InitFit /\ [][FitSizeCall]_vars
SpecGif == InitGif /\ [][NextGif]_vars
SpecSample == InitSample /\ [][Sample]_vars
SpecFont == InitFont /\ [][NextFont]_vars

-----------------------------------------------------------------------------
(* What the properties below are stated with.                               *)

Min(a, b) == IF a < b THEN a ELSE b

IsSaveGif == "fn" \in DOMAIN saved /\ saved.fn = "save_gif"

\* make_jpg_or_gif is past lines 171-176 of an animated render
Sampled == is_animated /\ pc # "make_jpg_or_gif"

Subsampled == Sampled /\ FCmp(ratio, FFromInt(1)) > 0

\* the exact value k * x of a float x and an int 0 < k < 2^14, as m * 2^e
Times(x, k) == [m |-> BMulSmall(x.m, k, 0), e |-> x.e]

\* |a - b| for exact values a, b, in units of 2^Min(a.e, b.e), and b in these units
AbsDiff(a, b) ==
    LET e0 == Min(a.e, b.e)
        am == BShl(a.m, a.e - e0)
        bm == BShl(b.m, b.e - e0)
    IN  IF BCmp(am, bm) >= 0 THEN BSub(am, bm) ELSE BSub(bm, am)
InUnits(b, a) == BShl(b.m, b.e - Min(a.e, b.e))

\* img.info["duration"] / 1000, line 173
NativeDuration == FDivInt(info_duration, 1000)
\* total playback time: of the frames emitted, and of the source
PlayedOut == Times(duration, Len(index))
PlayedIn == Times(NativeDuration, n_frames)

\* the sizes fit_font_size tries: max_fontsize, then down to min_fontsize
Tried == {max_fontsize} \cup {fs \in 1..MaxFont : min_fontsize <= fs /\ fs <= max_fontsize}
Range == {fs \in 1..MaxFont : min_fontsize <= fs /\ fs <= max_fontsize}
Fitting(S) == {fs \in S : Fits(fs)}
Largest(S) == CHOOSE fs \in S : \A t \in S : t <= fs

-----------------------------------------------------------------------------
(* C1: an animated render selects, and hands to save_gif, exactly          *)
(* min(n_frames, gif_max_frames) frames.                                    *)
C1_FrameBudget ==
    Sampled =>
        /\ Len(index) = Min(n_frames, gif_max_frames)
        /\ IsSaveGif => Len(saved.frames) = Min(n_frames, gif_max_frames)

C1_Witness ==
    /\ IsSaveGif
    /\ n_frames > gif_max_frames
    /\ gif_max_frames >= 2
    /\ Len(saved.frames) = gif_max_frames

(* C2: the selected frame indices are strictly increasing and every one of *)
(* them lies in [0, n_frames).                                              *)
C2_IndicesIncreasingInRange ==
    Sampled =>
        /\ \A k \in 1..Len(index) : 0 <= index[k] /\ index[k] < n_frames
        /\ \A k \in 1..(Len(index) - 1) : index[k] < index[k + 1]

\* 120 frames under a budget of 50: the last index is int(49 * 2.4) = 117
C2_Witness ==
    /\ Subsampled
    /\ n_frames = 120 /\ gif_max_frames = 50
    /\ index[50] = 117

(* C3 as stated: under subsampling the duration passed on times the number *)
(* of frames emitted EQUALS the native duration times n_frames; with no     *)
(* subsampling the native duration is passed on unchanged.                  *)
C3_ExactConservation ==
    Sampled =>
        IF FCmp(ratio, FFromInt(1)) > 0
        THEN AbsDiff(PlayedOut, PlayedIn) = <<>>
        ELSE duration = NativeDuration

(* C3 amended: under subsampling the two playback times agree to a relative *)
(* error of at most 2^-51 (the two float roundings of duration * ratio);    *)
(* with no subsampling the native duration is passed on unchanged.          *)
C3_DurationConserved ==
    Sampled =>
        IF FCmp(ratio, FFromInt(1)) > 0
        THEN BCmp(BShl(AbsDiff(PlayedOut, PlayedIn), MantBits - 2),
                  InUnits(PlayedIn, PlayedOut)) <= 0
        ELSE duration = NativeDuration

\* a subsampled render whose playback time is not exactly the source's
C3_Witness ==
    /\ Subsampled
    /\ AbsDiff(PlayedOut, PlayedIn) # <<>>
    /\ FCmp(duration, NativeDuration) > 0

(* C4: the image fit_size returns has exactly the requested size, for every *)
(* source size, mode and direction.                                         *)
C4_ExactSize ==
    pc = "returned" /\ fit_result # Null =>
        <<fit_result.width, fit_result.height>> = size

\* a fit whose scaled content is not of the requested size
C4_Witness ==
    /\ pc = "returned" /\ fit_result # Null
    /\ mode = "INSIDE"
    /\ fit_result.content.width < size[1]
    /\ <<fit_result.width, fit_result.height>> = size

(* C5 as stated: fit_font_size returns the largest size in                  *)
(* [min_fontsize, max_fontsize] at which the text fits, 0 if none of them   *)
(* fits, and never a non-zero size outside [min_fontsize, max_fontsize].    *)
C5_LargestInRange ==
    pc = "returned" =>
        /\ font_result = IF Fitting(Range) = {} THEN 0 ELSE Largest(Fitting(Range))
        /\ font_result # 0 => min_fontsize <= font_result /\ font_result <= max_fontsize

(* C5 amended: fit_font_size tries max_fontsize first, whatever             *)
(* min_fontsize is, and then every size down to min_fontsize; it returns    *)
(* the largest of the sizes tried at which the text fits and 0 if there is  *)
(* none.  While it searches, the text fits at no size between the current   *)
(* one and max_fontsize.                                                    *)
C5_LargestTried ==
    /\ pc = "returned" =>
          font_result = IF Fitting(Tried) = {} THEN 0 ELSE Largest(Fitting(Tried))
    /\ pc = "while" =>
          /\ fontsize \in Tried
          /\ \A fs \in (fontsize + 1)..max_fontsize : ~Fits(fs)

\* a search that went down from max_fontsize and stopped above min_fontsize
C5_Witness ==
    /\ pc = "returned"
    /\ min_fontsize < font_result
    /\ font_result < max_fontsize

(* C6: once func has failed on a frame of an animated render, the render    *)
(* has ended with that failure and save_gif was not called.                 *)
C6_FailureAborts ==
    is_animated /\ (\E k \in 1..Len(calls) : ~calls[k].ok) =>
        pc = "raised" /\ saved = Null

\* func failing after two frames were transformed and appended
C6_Witness ==
    /\ is_animated
    /\ pc = "raised"
    /\ Len(frames) >= 2
    /\ ~calls[Len(calls)].ok

(* C7: with direction NORTHWEST the scaled content is pasted at (0, 0);     *)
(* with SOUTHEAST its bottom-right corner is at (w, h) of the canvas.       *)
C7_Anchoring ==
    pc = "returned" /\ fit_result # Null =>
        /\ direction = "NORTHWEST" => fit_result.x = 0 /\ fit_result.y = 0
        /\ direction = "SOUTHEAST" =>
              /\ fit_result.x + fit_result.content.width = size[1]
              /\ fit_result.y + fit_result.content.height = size[2]

\* a SOUTHEAST fit whose content is smaller than the canvas
C7_Witness ==
    /\ pc = "returned" /\ fit_result # Null
    /\ direction = "SOUTHEAST"
    /\ fit_result.x > 0
    /\ fit_result.x + fit_result.content.width = size[1]

Scenario800x600 ==
    /\ pc = "returned" /\ fit_result # Null
    /\ img_size = <<800, 600>> /\ size = <<200, 200>>
    /\ mode = "INCLUDE" /\ direction = "CENTER"

(* C8 as stated: 800x600 into (200, 200), INCLUDE, CENTER is scaled to      *)
(* 267x200, 33 pixels are clipped left and 33 right, the output is 200x200. *)
C8_Scaled267 ==
    Scenario800x600 =>
        /\ fit_result.content.width = 267 /\ fit_result.content.height = 200
        /\ -fit_result.x = 33
        /\ fit_result.x + fit_result.content.width - size[1] = 33
        /\ fit_result.width = 200 /\ fit_result.height = 200

(* C8 amended: 800x600 into (200, 200), INCLUDE, CENTER is scaled to        *)
(* 266x200 (int() truncates 266.67), 33 pixels are clipped left and 33      *)
(* right, the output is 200x200.                                            *)
C8_Scaled266 ==
    Scenario800x600 =>
        /\ fit_result.content.width = 266 /\ fit_result.content.height = 200
        /\ -fit_result.x = 33 /\ fit_result.y = 0
        /\ fit_result.x + fit_result.content.width - size[1] = 33
        /\ fit_result.width = 200 /\ fit_result.height = 200

C8_Witness == Scenario800x600 /\ fit_result.x < 0

(* C9: an animated render takes the selected indices in order: it seeks to  *)
(* the index, calls func once with the source at that index, zooms the      *)
(* result and appends it; the k-th frame handed to save_gif is the zoomed   *)
(* result of func on the frame at the k-th index.                           *)
C9_FramesInIndexOrder ==
    Sampled =>
        /\ Len(calls) = IF pc = "func" THEN pos - 1 ELSE pos
        /\ Len(frames) = IF pc \in {"func", "append", "raised"} THEN pos - 1 ELSE pos
        /\ pc \in {"func", "append"} => cursor = index[pos]
        /\ \A k \in 1..Len(calls) : calls[k].at = index[k]
        /\ \A k \in 1..Len(frames) :
              frames[k] = [src    |-> index[k],
                           width  |-> Zoomed(calls[k].width, gif_zoom),
                           height |-> Zoomed(calls[k].height, gif_zoom)]
        /\ IsSaveGif => saved.frames = frames /\ Len(frames) = Len(index)

\* three frames, subsampled, zoomed by a half, handed to save_gif
C9_Witness ==
    /\ IsSaveGif
    /\ Len(saved.frames) >= 3
    /\ n_frames > gif_max_frames
    /\ gif_zoom = <<1, 2>>
    /\ saved.frames[3].src = index[3] /\ index[3] > 2

(* C10: the frames handed to save_gif all have the same dimensions: a func  *)
(* that returns frames of differing sizes has the render rejected.          *)
C10_UniformFrames ==
    IsSaveGif =>
        \A i, j \in 1..Len(saved.frames) :
            /\ saved.frames[i].width = saved.frames[j].width
            /\ saved.frames[i].height = saved.frames[j].height

=============================================================================
